---- MODULE Spec2Model ----
(***************************************************************************)
(* Model of app.py (Property CSV Mapper): the column mapper, the           *)
(* deduplicator, the filename generator, the validator and the main        *)
(* workflow that chains them.                                              *)
(*                                                                         *)
(* Text values are sequences of one-character strings, so that upper(),    *)
(* strip(), re.sub() and replace() are computed character by character.    *)
(* A missing value (pandas NaN) is the one-element sequence NaN.           *)
(* A DataFrame is [columns |-> sequence of column names,                   *)
(*                 rows    |-> sequence of [label, val]] where label is    *)
(* the row's index label and val maps each column name to a value.         *)
(***************************************************************************)
EXTENDS Integers, Sequences, FiniteSets, TLC

VARIABLES
    pc,             \* position of the run
    df,             \* the input DataFrame (pd.read_csv result / argument)
    property_ref_code, \* the reference code
    mapped_df,      \* process_csv's mapped_df just before deduplication
    warnings,       \* source columns reported by st.warning in process_csv
    df_deduped,     \* DataFrame returned by deduplicate_dataframe/process_csv
    duplicates_removed, \* count returned with it
    df_again,       \* result of deduplicating df_deduped once more
    removed_again,  \* count returned by that second call
    uploaded_file,  \* the file_uploader widget: NoFile, Malformed or a DataFrame
    today,          \* datetime.now() as an 8-digit stamp
    filename,       \* result of generate_output_filename
    shown,          \* sequence of things rendered / calls made by main, in order
    download        \* the download button: NoDownload or [file_name, data]

vars == <<pc, df, property_ref_code, mapped_df, warnings, df_deduped,
          duplicates_removed, df_again, removed_again, uploaded_file, today,
          filename, shown, download>>

-----------------------------------------------------------------------------
(* Bounds of the model *)

MaxRows == 4
MaxInputRows == 2
MaxCodeLen == 3

-----------------------------------------------------------------------------
(* Text *)

NaN == <<"NaN">>
EmptyStr == <<>>

Range(s) == {s[i] : i \in 1..Len(s)}

UpperOf == [a |-> "A", b |-> "B", c |-> "C", d |-> "D", e |-> "E",
            j |-> "J", o |-> "O", h |-> "H", n |-> "N",
            s |-> "S", m |-> "M", i |-> "I", t |-> "T"]

IsSpace(ch) == ch \in {" ", "\t"}

\* str.upper()
Upper(s) == [k \in 1..Len(s) |-> IF s[k] \in DOMAIN UpperOf THEN UpperOf[s[k]] ELSE s[k]]

RECURSIVE LStrip(_)
LStrip(s) == IF s = <<>> THEN s
             ELSE IF IsSpace(Head(s)) THEN LStrip(Tail(s)) ELSE s

RECURSIVE RStrip(_)
RStrip(s) == IF s = <<>> THEN s
             ELSE IF IsSpace(s[Len(s)]) THEN RStrip(SubSeq(s, 1, Len(s) - 1)) ELSE s

\* str.strip()
Strip(s) == RStrip(LStrip(s))

-----------------------------------------------------------------------------
(* Configuration *)

COLUMN_MAPPING ==
    << <<"OWNER_1_FIRST", "First Name">>,
       <<"OWNER_1_LAST", "Last Name">>,
       <<"OWNER_ADDRESS", "Mailing Address">>,
       <<"OWNER_CITY", "Mailing City">>,
       <<"OWNER_STATE", "Mailing State">>,
       <<"OWNER_ZIP", "Mailing Zip">>,
       <<"PROP_ADDRESS", "Property Address">>,
       <<"PROP_CITY", "Property City">>,
       <<"PROP_STATE", "Property State">>,
       <<"PROP_ZIP", "Property Zip">> >>

SourceColumns == [k \in 1..Len(COLUMN_MAPPING) |-> COLUMN_MAPPING[k][1]]
TargetColumns == [k \in 1..Len(COLUMN_MAPPING) |-> COLUMN_MAPPING[k][2]]
CustomField == "Custom Field 1"
OutputColumns == Append(TargetColumns, CustomField)

-----------------------------------------------------------------------------
(* deduplicate_dataframe *)

\* df.fillna('')
FillValue(v) == IF v = NaN THEN EmptyStr ELSE v
fillna(frame) ==
    [frame EXCEPT !.rows =
        [k \in 1..Len(frame.rows) |->
            [frame.rows[k] EXCEPT !.val =
                [col \in DOMAIN frame.rows[k].val |-> FillValue(frame.rows[k].val[col])]]]]

\* one term of a key: Series.str.strip().str.upper()
NormNoStrip(v) == Upper(v)
Norm(v) == Upper(Strip(v))

\* df_clean['_dedup_owner']
dedup_owner(val) ==
    Strip(Norm(val["First Name"]) \o <<" ">> \o Norm(val["Last Name"]))

\* df_clean['_dedup_mailing']
dedup_mailing(val) ==
    Strip(Norm(val["Mailing Address"]) \o <<" ">> \o Norm(val["Mailing City"])
          \o <<" ">> \o Norm(val["Mailing State"]))

dedup_key(val) == <<dedup_owner(val), dedup_mailing(val)>>

\* drop_duplicates(subset=[...], keep='first'): one pass in row order with
\* the set of keys already met
RECURSIVE DropScan(_, _, _, _)
DropScan(rows, k, seen, acc) ==
    IF k > Len(rows) THEN acc
    ELSE LET key == dedup_key(rows[k].val)
         IN  IF key \in seen
             THEN DropScan(rows, k + 1, seen, acc)
             ELSE DropScan(rows, k + 1, seen \cup {key}, Append(acc, rows[k]))

RECURSIVE DropScanLast(_, _, _, _)
DropScanLast(rows, k, seen, acc) ==
    IF k < 1 THEN acc
    ELSE LET key == dedup_key(rows[k].val)
         IN  IF key \in seen
             THEN DropScanLast(rows, k - 1, seen, acc)
             ELSE DropScanLast(rows, k - 1, seen \cup {key}, <<rows[k]>> \o acc)

drop_duplicates_last(rows) == DropScanLast(rows, Len(rows), {}, <<>>)
drop_duplicates(rows) == DropScan(rows, 1, {}, <<>>)

\* duplicates_removed = initial_count - len(df_deduped)
CountFinalOnly(initial_count, final_count) == final_count
CountRemoved(initial_count, final_count) == initial_count - final_count

deduplicate_dataframe(frame) ==
    LET df_clean == fillna(frame)
        kept     == drop_duplicates(df_clean.rows)
    IN  [df      |-> [columns |-> frame.columns, rows |-> kept],
         removed |-> CountRemoved(Len(frame.rows), Len(kept))]

-----------------------------------------------------------------------------
(* process_csv *)

EmptyFrame == [columns |-> <<>>, rows |-> <<>>]
NoDownload == [offered |-> FALSE, file_name |-> <<>>, data |-> EmptyFrame]

\* the file_uploader widget's value
NoFile == [kind |-> "none", frame |-> EmptyFrame]
Malformed == [kind |-> "malformed", frame |-> EmptyFrame]
Csv(frame) == [kind |-> "csv", frame |-> frame]

HasColumn(frame, col) == col \in Range(frame.columns)

\* df[source_col]: the column with its index labels
Series(frame, col) ==
    [k \in 1..Len(frame.rows) |->
        [label |-> frame.rows[k].label, value |-> frame.rows[k].val[col]]]

SeriesAt(series, label) ==
    IF \E k \in 1..Len(series) : series[k].label = label
    THEN series[CHOOSE k \in 1..Len(series) : series[k].label = label].value
    ELSE NaN

\* mapped_df[target_col] = <Series>.  A frame whose index is empty takes the
\* index of a non-empty Series, its existing columns being filled with NaN;
\* otherwise the Series is aligned on the frame's index.
SetItemSeries(frame, col, series) ==
    LET cols == Range(frame.columns) \cup {col}
    IN  [columns |-> Append(frame.columns, col),
         rows |->
            IF Len(frame.rows) = 0 /\ Len(series) > 0
            THEN [k \in 1..Len(series) |->
                    [label |-> series[k].label,
                     val   |-> [c \in cols |-> IF c = col THEN series[k].value ELSE NaN]]]
            ELSE [k \in 1..Len(frame.rows) |->
                    [label |-> frame.rows[k].label,
                     val   |-> [c \in cols |->
                                  IF c = col THEN SeriesAt(series, frame.rows[k].label)
                                  ELSE frame.rows[k].val[c]]]]]

\* mapped_df[target_col] = <scalar>: broadcast over the frame's index as it is
SetItemScalar(frame, col, v) ==
    LET cols == Range(frame.columns) \cup {col}
    IN  [columns |-> Append(frame.columns, col),
         rows |-> [k \in 1..Len(frame.rows) |->
                    [label |-> frame.rows[k].label,
                     val   |-> [c \in cols |-> IF c = col THEN v ELSE frame.rows[k].val[c]]]]]

\* the loop over COLUMN_MAPPING.items(), from entry k on
RECURSIVE MapColumns(_, _, _)
MapColumns(frame, k, acc) ==
    IF k > Len(COLUMN_MAPPING) THEN acc
    ELSE LET source_col == COLUMN_MAPPING[k][1]
             target_col == COLUMN_MAPPING[k][2]
         IN  IF HasColumn(frame, source_col)
             THEN MapColumns(frame, k + 1, SetItemSeries(acc, target_col, Series(frame, source_col)))
             ELSE MapColumns(frame, k + 1, SetItemScalar(acc, target_col, EmptyStr))

\* the st.warning calls of the loop, in order
MapWarnings(frame) == SelectSeq(SourceColumns, LAMBDA col : ~HasColumn(frame, col))

process_csv(frame, code) ==
    LET mapped == SetItemScalar(MapColumns(frame, 1, EmptyFrame), CustomField, code)
        dedup  == deduplicate_dataframe(mapped)
    IN  [mapped   |-> mapped,
         warnings |-> MapWarnings(frame),
         df       |-> dedup.df,
         removed  |-> dedup.removed]

-----------------------------------------------------------------------------
(* generate_output_filename *)

IllegalChars == {"<", ">", ":", "\"", "/", "\\", "|", "?", "*"}

Suffix == <<"D","i","r","e","c","t","S","k","i","p","_",
            "I","m","p","o","r","t",".","c","s","v">>

\* re.sub(r'[<>:"/\\|?*]', '', s)
re_sub_underscore(s) == [k \in 1..Len(s) |-> IF s[k] \in IllegalChars THEN "_" ELSE s[k]]
re_sub(s) == SelectSeq(s, LAMBDA ch : ch \notin IllegalChars)

\* s.replace(' ', '_')
replace_space(s) == [k \in 1..Len(s) |-> IF s[k] = " " THEN "_" ELSE s[k]]

generate_output_filename(code, date_str) ==
    IF code # EmptyStr
    THEN LET custom_field == replace_space(re_sub(code))
         IN  date_str \o <<"_">> \o custom_field \o <<"_">> \o Suffix
    ELSE date_str \o <<"_">> \o Suffix

-----------------------------------------------------------------------------
(* validate_input_file *)

missing_columns(frame) == SelectSeq(SourceColumns, LAMBDA col : ~HasColumn(frame, col))

validate_always(frame) == TRUE
validate_input_file(frame) == missing_columns(frame) = <<>>

-----------------------------------------------------------------------------
(* Inputs *)

\* all sequences over S of length at most n
SeqsUpTo(S, n) == UNION { [1..k -> S] : k \in 0..n }

\* a frame with a RangeIndex (labels 0..n-1) over the given row values
Frame(columns, vals) ==
    [columns |-> columns,
     rows    |-> [k \in 1..Len(vals) |-> [label |-> k - 1, val |-> vals[k]]]]

\* a row of a mapped frame
TargetRow(first, last, addr, city, state, zip, custom) ==
    [col \in Range(OutputColumns) |->
        CASE col = "First Name"      -> first
          [] col = "Last Name"       -> last
          [] col = "Mailing Address" -> addr
          [] col = "Mailing City"    -> city
          [] col = "Mailing State"   -> state
          [] col = "Mailing Zip"     -> zip
          [] col = CustomField       -> custom
          [] OTHER                   -> <<"x">>]

\* few keys, many rows: owners and mailings that coincide after
\* normalisation, blank rows, and rows that differ outside the key
SmallOwners   == { <<<<"a">>, <<"b">>>>, <<<<" ", "A">>, <<"B", " ">>>>, <<NaN, EmptyStr>> }
SmallMailings == { <<<<"c">>, <<"d">>, <<"e">>>>, <<NaN, EmptyStr, EmptyStr>> }
SmallZips     == { <<"1">>, NaN }
SmallRows ==
    { TargetRow(x[1][1], x[1][2], x[2][1], x[2][2], x[2][3], x[3], <<"R">>) :
        x \in { y \in SmallOwners \X SmallMailings \X SmallZips :
                    y[3] = NaN => (y[1][1] = <<"a">> /\ y[2][1] = <<"c">>) } }

\* many keys, two rows: case, outer and inner whitespace, blanks, and text
\* that moves from one field to the next
RichFirsts == { NaN, EmptyStr, <<"a">>, <<"\t", "A", " ">>,
                <<"a", " ", "b">>, <<"a", " ", " ", "b">> }
RichLasts  == { EmptyStr, <<"b">>, <<" ", "B">> }
RichAddrs  == { <<"c">>, <<" ", "C">> }
RichCities == { EmptyStr, <<"d">> }
RichStates == { NaN }
RichRows ==
    { TargetRow(f, l, a, c, s, <<"1">>, <<"R">>) :
        f \in RichFirsts, l \in RichLasts, a \in RichAddrs, c \in RichCities, s \in RichStates }

DedupInputs(maxRows) ==
    { Frame(OutputColumns, vals) : vals \in SeqsUpTo(SmallRows, maxRows) }
    \cup { Frame(OutputColumns, <<r1, r2>>) : r1 \in RichRows, r2 \in RichRows }

-----------------------------------------------------------------------------
(* deduplicate_dataframe as a function of its argument *)

Idle ==
    /\ property_ref_code = EmptyStr
    /\ mapped_df = EmptyFrame
    /\ warnings = <<>>
    /\ df_deduped = EmptyFrame
    /\ duplicates_removed = 0
    /\ df_again = EmptyFrame
    /\ removed_again = 0
    /\ uploaded_file = NoFile
    /\ today = EmptyStr
    /\ filename = EmptyStr
    /\ shown = <<>>
    /\ download = NoDownload

InitDedup ==
    /\ pc = "dedup_call"
    /\ df \in DedupInputs(MaxRows)
    /\ Idle

Deduplicate ==
    /\ pc = "dedup_call"
    /\ LET r == deduplicate_dataframe(df)
       IN  /\ df_deduped' = r.df
           /\ duplicates_removed' = r.removed
    /\ pc' = "dedup_returned"
    /\ UNCHANGED <<df, property_ref_code, mapped_df, warnings, df_again, removed_again,
                   uploaded_file, today, filename, shown, download>>

DeduplicateAgain ==
    /\ pc = "dedup_returned"
    /\ LET r == deduplicate_dataframe(df_deduped)
       IN  /\ df_again' = r.df
           /\ removed_again' = r.removed
    /\ pc' = "dedup_twice"
    /\ UNCHANGED <<df, property_ref_code, mapped_df, warnings, df_deduped,
                   duplicates_removed, uploaded_file, today, filename, shown, download>>

NextDedup == Deduplicate \/ DeduplicateAgain

SpecDedup == InitDedup /\ [][NextDedup]_vars

-----------------------------------------------------------------------------
(* process_csv as a function of its arguments *)

ExtraColumn == "APN"

SourceRow(first, last, addr, city, state, zip) ==
    [col \in Range(SourceColumns) \cup {ExtraColumn} |->
        CASE col = "OWNER_1_FIRST" -> first
          [] col = "OWNER_1_LAST"  -> last
          [] col = "OWNER_ADDRESS" -> addr
          [] col = "OWNER_CITY"    -> city
          [] col = "OWNER_STATE"   -> state
          [] col = "OWNER_ZIP"     -> zip
          [] OTHER                 -> <<"x">>]

SourceRows ==
    { SourceRow(<<"a">>, <<"b">>, <<"c">>, <<"d">>, <<"e">>, <<"1">>),
      SourceRow(<<" ", "A">>, <<"B", " ">>, <<"C">>, <<"d">>, <<"e">>, <<"2">>),
      SourceRow(<<"b">>, <<"a">>, <<"c">>, NaN, <<"e">>, NaN),
      SourceRow(NaN, EmptyStr, NaN, EmptyStr, EmptyStr, <<"1">>) }

\* the sets of source columns a file may lack: a leading part, a trailing
\* part or a single column of the mapping (none and all ten included)
AbsentSets ==
    LET n == Len(SourceColumns)
    IN  { {SourceColumns[i] : i \in 1..k} : k \in 0..n }
        \cup { {SourceColumns[i] : i \in k..n} : k \in 1..n }
        \cup { {SourceColumns[k]} : k \in 1..n }

\* a parsed file with the given rows, lacking the given source columns
InputFrame(vals, absent) ==
    LET columns == <<ExtraColumn>> \o SelectSeq(SourceColumns, LAMBDA col : col \notin absent)
    IN  Frame(columns, [k \in 1..Len(vals) |-> [col \in Range(columns) |-> vals[k][col]]])

InputFrames(maxRows) ==
    { InputFrame(vals, absent) : vals \in SeqsUpTo(SourceRows, maxRows), absent \in AbsentSets }

MapCodes == { EmptyStr, <<"R">>, <<"R", " ", ":">> }

InitMap ==
    /\ pc = "process_call"
    /\ df \in InputFrames(MaxInputRows)
    /\ property_ref_code \in MapCodes
    /\ mapped_df = EmptyFrame
    /\ warnings = <<>>
    /\ df_deduped = EmptyFrame
    /\ duplicates_removed = 0
    /\ df_again = EmptyFrame
    /\ removed_again = 0
    /\ uploaded_file = NoFile
    /\ today = EmptyStr
    /\ filename = EmptyStr
    /\ shown = <<>>
    /\ download = NoDownload

ProcessCsv ==
    /\ pc = "process_call"
    /\ LET r == process_csv(df, property_ref_code)
       IN  /\ mapped_df' = r.mapped
           /\ warnings' = r.warnings
           /\ df_deduped' = r.df
           /\ duplicates_removed' = r.removed
    /\ pc' = "process_returned"
    /\ UNCHANGED <<df, property_ref_code, df_again, removed_again, uploaded_file, today,
                   filename, shown, download>>

NextMap == ProcessCsv

SpecMap == InitMap /\ [][NextMap]_vars

-----------------------------------------------------------------------------
(* generate_output_filename as a function of its argument and the date *)

CodeChars == IllegalChars \cup {" ", "A", "_"}

\* PROJ:2025/001
ExampleCode == <<"P", "R", "O", "J", ":", "2", "0", "2", "5", "/", "0", "0", "1">>
ExampleDate == <<"2", "0", "2", "5", "0", "1", "1", "5">>

Codes(maxLen) == SeqsUpTo(CodeChars, maxLen) \cup {ExampleCode}
Dates == { ExampleDate, <<"2", "0", "2", "6", "1", "1", "0", "1">> }

InitFile ==
    /\ pc = "filename_call"
    /\ property_ref_code \in Codes(MaxCodeLen)
    /\ today \in Dates
    /\ df = EmptyFrame
    /\ mapped_df = EmptyFrame
    /\ warnings = <<>>
    /\ df_deduped = EmptyFrame
    /\ duplicates_removed = 0
    /\ df_again = EmptyFrame
    /\ removed_again = 0
    /\ uploaded_file = NoFile
    /\ filename = EmptyStr
    /\ shown = <<>>
    /\ download = NoDownload

GenerateFilename ==
    /\ pc = "filename_call"
    /\ filename' = generate_output_filename(property_ref_code, today)
    /\ pc' = "filename_returned"
    /\ UNCHANGED <<df, property_ref_code, mapped_df, warnings, df_deduped,
                   duplicates_removed, df_again, removed_again, uploaded_file, today,
                   shown, download>>

NextFile == GenerateFilename

SpecFile == InitFile /\ [][NextFile]_vars

-----------------------------------------------------------------------------
(* main: one run of the script over the two widgets' values *)

MainFiles(maxRows) == {NoFile, Malformed} \cup { Csv(f) : f \in InputFrames(maxRows) }
MainCodes == { EmptyStr, <<"R">>, <<":">>, <<"R", " ", ":">> }

InitMain ==
    /\ pc = "main"
    /\ uploaded_file \in MainFiles(MaxInputRows)
    /\ property_ref_code \in MainCodes
    /\ today \in Dates
    /\ df = EmptyFrame
    /\ mapped_df = EmptyFrame
    /\ warnings = <<>>
    /\ df_deduped = EmptyFrame
    /\ duplicates_removed = 0
    /\ df_again = EmptyFrame
    /\ removed_again = 0
    /\ filename = EmptyStr
    /\ shown = <<>>
    /\ download = NoDownload

\* if uploaded_file is not None and property_ref_code:
ReadyFileOnly(file, code) == file.kind # "none"
Ready(file, code) == file.kind # "none" /\ code # EmptyStr

EnterTry ==
    /\ pc = "main"
    /\ Ready(uploaded_file, property_ref_code)
    /\ pc' = "read_csv"
    /\ UNCHANGED <<df, property_ref_code, mapped_df, warnings, df_deduped,
                   duplicates_removed, df_again, removed_again, uploaded_file, today,
                   filename, shown, download>>

\* elif uploaded_file is not None and not property_ref_code:
GuideCode ==
    /\ pc = "main"
    /\ ~Ready(uploaded_file, property_ref_code)
    /\ uploaded_file.kind # "none" /\ property_ref_code = EmptyStr
    /\ shown' = Append(shown, "warning_enter_code")
    /\ pc' = "footer"
    /\ UNCHANGED <<df, property_ref_code, mapped_df, warnings, df_deduped,
                   duplicates_removed, df_again, removed_again, uploaded_file, today,
                   filename, download>>

\* elif uploaded_file is None and property_ref_code:
GuideFile ==
    /\ pc = "main"
    /\ ~Ready(uploaded_file, property_ref_code)
    /\ uploaded_file.kind = "none" /\ property_ref_code # EmptyStr
    /\ shown' = Append(shown, "warning_upload_file")
    /\ pc' = "footer"
    /\ UNCHANGED <<df, property_ref_code, mapped_df, warnings, df_deduped,
                   duplicates_removed, df_again, removed_again, uploaded_file, today,
                   filename, download>>

\* none of the three branches
NoBranch ==
    /\ pc = "main"
    /\ ~Ready(uploaded_file, property_ref_code)
    /\ uploaded_file.kind = "none" /\ property_ref_code = EmptyStr
    /\ pc' = "footer"
    /\ UNCHANGED <<df, property_ref_code, mapped_df, warnings, df_deduped,
                   duplicates_removed, df_again, removed_again, uploaded_file, today,
                   filename, shown, download>>

\* df = pd.read_csv(uploaded_file); st.success; preview
ReadCsvOk ==
    /\ pc = "read_csv"
    /\ uploaded_file.kind = "csv"
    /\ df' = uploaded_file.frame
    /\ shown' = Append(shown, "success_uploaded")
    /\ pc' = "validate"
    /\ UNCHANGED <<property_ref_code, mapped_df, warnings, df_deduped,
                   duplicates_removed, df_again, removed_again, uploaded_file, today,
                   filename, download>>

\* pd.read_csv raises
ReadCsvRaises ==
    /\ pc = "read_csv"
    /\ uploaded_file.kind # "csv"
    /\ pc' = "except"
    /\ UNCHANGED <<df, property_ref_code, mapped_df, warnings, df_deduped,
                   duplicates_removed, df_again, removed_again, uploaded_file, today,
                   filename, shown, download>>

\* if validate_input_file(df): -- True
ValidatePasses ==
    /\ pc = "validate"
    /\ validate_input_file(df)
    /\ shown' = Append(shown, "validate_input_file")
    /\ pc' = "process"
    /\ UNCHANGED <<df, property_ref_code, mapped_df, warnings, df_deduped,
                   duplicates_removed, df_again, removed_again, uploaded_file, today,
                   filename, download>>

\* if validate_input_file(df): -- st.error, False; nothing else in the try
ValidateFails ==
    /\ pc = "validate"
    /\ ~validate_input_file(df)
    /\ shown' = shown \o <<"validate_input_file", "error_missing_columns">>
    /\ pc' = "footer"
    /\ UNCHANGED <<df, property_ref_code, mapped_df, warnings, df_deduped,
                   duplicates_removed, df_again, removed_again, uploaded_file, today,
                   filename, download>>

\* mapped_df, duplicates_removed = process_csv(df, property_ref_code)
Process ==
    /\ pc = "process"
    /\ LET r == process_csv(df, property_ref_code)
       IN  /\ mapped_df' = r.mapped
           /\ warnings' = r.warnings
           /\ df_deduped' = r.df
           /\ duplicates_removed' = r.removed
           /\ shown' = Append(shown, "process_csv")
                         \o [k \in 1..Len(r.warnings) |-> "warning_column_not_found"]
    /\ pc' = "results"
    /\ UNCHANGED <<df, property_ref_code, df_again, removed_again, uploaded_file, today,
                   filename, download>>

\* the results shown before the processing summary
ResultsHead ==
    <<IF duplicates_removed > 0 THEN "warning_duplicates_removed" ELSE "info_no_duplicates",
      "success_processed", "metrics">>

\* (duplicates_removed/len(df)*100) is defined
RateDefined == Len(df.rows) # 0

\* processing results, through the processing summary
Results ==
    /\ pc = "results"
    /\ RateDefined
    /\ shown' = shown \o ResultsHead \o <<"info_summary">>
    /\ pc' = "download"
    /\ UNCHANGED <<df, property_ref_code, mapped_df, warnings, df_deduped,
                   duplicates_removed, df_again, removed_again, uploaded_file, today,
                   filename, download>>

\* the processing summary raises ZeroDivisionError
ResultsRaises ==
    /\ pc = "results"
    /\ ~RateDefined
    /\ shown' = shown \o ResultsHead
    /\ pc' = "except"
    /\ UNCHANGED <<df, property_ref_code, mapped_df, warnings, df_deduped,
                   duplicates_removed, df_again, removed_again, uploaded_file, today,
                   filename, download>>

\* to_csv, generate_output_filename, st.download_button, details
Download ==
    /\ pc = "download"
    /\ filename' = generate_output_filename(property_ref_code, today)
    /\ download' = [offered |-> TRUE, file_name |-> filename', data |-> df_deduped]
    /\ shown' = shown \o <<"generate_output_filename", "download_button", "info_filename">>
    /\ pc' = "footer"
    /\ UNCHANGED <<df, property_ref_code, mapped_df, warnings, df_deduped,
                   duplicates_removed, df_again, removed_again, uploaded_file, today>>

\* except Exception as e:
Except ==
    /\ pc = "except"
    /\ shown' = shown \o <<"error_processing", "info_check_format">>
    /\ pc' = "footer"
    /\ UNCHANGED <<df, property_ref_code, mapped_df, warnings, df_deduped,
                   duplicates_removed, df_again, removed_again, uploaded_file, today,
                   filename, download>>

Footer ==
    /\ pc = "footer"
    /\ pc' = "done"
    /\ UNCHANGED <<df, property_ref_code, mapped_df, warnings, df_deduped,
                   duplicates_removed, df_again, removed_again, uploaded_file, today,
                   filename, shown, download>>

NextMain ==
    \/ EnterTry \/ GuideCode \/ GuideFile \/ NoBranch
    \/ ReadCsvOk \/ ReadCsvRaises
    \/ ValidatePasses \/ ValidateFails
    \/ Process
    \/ Results \/ ResultsRaises
    \/ Download
    \/ Except
    \/ Footer

SpecMain == InitMain /\ [][NextMain]_vars

-----------------------------------------------------------------------------
(* The composite key as the specification words it, for the properties *)

KeyColumns == {"First Name", "Last Name", "Mailing Address", "Mailing City", "Mailing State"}

Blank(v) == IF v = NaN THEN <<>> ELSE v

NonSpaces(s) == {k \in 1..Len(s) : s[k] \notin {" ", "\t"}}

\* s without its leading and trailing whitespace
Trim(s) ==
    IF NonSpaces(s) = {} THEN <<>>
    ELSE SubSeq(s, CHOOSE k \in NonSpaces(s) : \A j \in NonSpaces(s) : k <= j,
                   CHOOSE k \in NonSpaces(s) : \A j \in NonSpaces(s) : k >= j)

\* s with every run of whitespace replaced by one space
RECURSIVE Squeeze(_)
Squeeze(s) ==
    IF s = <<>> THEN <<>>
    ELSE IF Head(s) \in {" ", "\t"}
         THEN IF Len(s) > 1 /\ s[2] \in {" ", "\t"}
              THEN Squeeze(Tail(s))
              ELSE <<" ">> \o Squeeze(Tail(s))
         ELSE <<Head(s)>> \o Squeeze(Tail(s))

TrimUpper(v) == Trim(Upper(Blank(v)))

ownerKey(val) ==
    Trim(TrimUpper(val["First Name"]) \o <<" ">> \o TrimUpper(val["Last Name"]))

mailingKey(val) ==
    Trim(TrimUpper(val["Mailing Address"]) \o <<" ">> \o TrimUpper(val["Mailing City"])
         \o <<" ">> \o TrimUpper(val["Mailing State"]))

compositeKey(val) == <<ownerKey(val), mailingKey(val)>>

Labels(rows) == {rows[k].label : k \in 1..Len(rows)}

\* the input row at position k is among the rows returned
Survives(k) == df.rows[k].label \in Labels(df_deduped.rows)

\* the two rows differ in the key fields by letter case and outer whitespace only
SameUpToCaseAndOuterSpace(v, w) == \A col \in KeyColumns : TrimUpper(v[col]) = TrimUpper(w[col])

\* the two rows differ in the key fields by the length of inner whitespace runs
DifferInInnerSpace(v, w) ==
    /\ \A col \in KeyColumns : Squeeze(TrimUpper(v[col])) = Squeeze(TrimUpper(w[col]))
    /\ \E col \in KeyColumns : TrimUpper(v[col]) # TrimUpper(w[col])

AllBlank(val) == \A col \in KeyColumns : Blank(val[col]) = <<>>

-----------------------------------------------------------------------------
(* Properties of deduplicate_dataframe, under SpecDedup *)

\* C1: for every key of the input exactly one row with that key is returned,
\* it is the input row of lowest index with that key (its values kept, a
\* missing value read as ''), whatever the fields outside the key hold, and
\* the returned rows are in the order of the input.
C1_FirstWinsStable ==
    pc # "dedup_call" =>
        LET in  == df.rows
            out == df_deduped.rows
        IN  /\ \A k \in 1..Len(in) :
                LET key   == compositeKey(in[k].val)
                    same  == {i \in 1..Len(in) : compositeKey(in[i].val) = key}
                    first == CHOOSE i \in same : \A j \in same : i <= j
                IN  /\ Cardinality({j \in 1..Len(out) : compositeKey(out[j].val) = key}) = 1
                    /\ \A j \in 1..Len(out) :
                         compositeKey(out[j].val) = key =>
                            /\ out[j].label = in[first].label
                            /\ \A col \in DOMAIN in[first].val :
                                 out[j].val[col] = Blank(in[first].val[col])
            /\ Labels(out) \subseteq Labels(in)
            /\ \A i, j \in 1..Len(out) : i < j => out[i].label < out[j].label
            /\ duplicates_removed = Len(in) - Len(out)

\* four rows of which the second and fourth share a key and differ in
\* Mailing Zip: three are returned, the second among them
C1_Witness ==
    /\ pc = "dedup_returned"
    /\ Len(df.rows) = 4
    /\ compositeKey(df.rows[2].val) = compositeKey(df.rows[4].val)
    /\ df.rows[2].val["Mailing Zip"] # df.rows[4].val["Mailing Zip"]
    /\ Cardinality({compositeKey(df.rows[k].val) : k \in 1..3}) = 3
    /\ Len(df_deduped.rows) = 3
    /\ df_deduped.rows[2].label = df.rows[2].label
    /\ duplicates_removed = 1

\* C2: a row is dropped exactly when an earlier row has the same
\* (ownerKey, mailingKey) pair, the keys being trim(upper(.)) of the fields
\* joined by single spaces and trimmed, with missing values read as '': rows
\* that differ by case or outer whitespace of the key fields are merged, two
\* rows that differ by inner whitespace are both kept, and the rows whose five
\* key fields are blank have the key ("", "") and leave at most one row.
C2_DuplicatesIffKeysEqual ==
    pc # "dedup_call" =>
        LET in  == df.rows
            out == df_deduped.rows
        IN  /\ \A k \in 1..Len(in) :
                 Survives(k) <=>
                    ~ \E i \in 1..(k - 1) : compositeKey(in[i].val) = compositeKey(in[k].val)
            /\ \A i, k \in 1..Len(in) :
                 (i < k /\ SameUpToCaseAndOuterSpace(in[i].val, in[k].val)) => ~Survives(k)
            /\ (Len(in) = 2 /\ DifferInInnerSpace(in[1].val, in[2].val)) => Len(out) = 2
            /\ \A k \in 1..Len(in) :
                 AllBlank(in[k].val) => dedup_key(fillna(df).rows[k].val) = <<<<>>, <<>>>>
            /\ Cardinality({k \in 1..Len(in) : AllBlank(in[k].val) /\ Survives(k)}) <= 1

\* two rows whose key fields differ as written but not after trim and upper:
\* one row is returned
C2_Witness ==
    /\ pc = "dedup_returned"
    /\ Len(df.rows) = 2
    /\ df.rows[1].val["First Name"] # df.rows[2].val["First Name"]
    /\ df.rows[1].val["Last Name"] # df.rows[2].val["Last Name"]
    /\ df.rows[1].val["Mailing Address"] # df.rows[2].val["Mailing Address"]
    /\ SameUpToCaseAndOuterSpace(df.rows[1].val, df.rows[2].val)
    /\ Len(df_deduped.rows) = 1
    /\ df_deduped.rows[1].label = 0

\* C5: deduplicating the returned frame returns that frame, rows, values and
\* order, and removes nothing.
C5_Idempotent ==
    pc = "dedup_twice" => (df_again = df_deduped /\ removed_again = 0)

\* a frame that lost rows the first time goes through a second time
C5_Witness ==
    /\ pc = "dedup_twice"
    /\ duplicates_removed > 0
    /\ Len(df_deduped.rows) >= 2
    /\ df_again = df_deduped
    /\ removed_again = 0

-----------------------------------------------------------------------------
(* Properties of process_csv, under SpecMap *)

\* the row of the input with the given index label
InputRow(label) == df.rows[CHOOSE k \in 1..Len(df.rows) : df.rows[k].label = label]

\* C3: the frame built by the mapping step, before deduplication, has as
\* many rows as the input, in the input's order, whichever source columns the
\* input lacks.
C3_MapperKeepsRows ==
    pc = "process_returned" =>
        /\ Len(mapped_df.rows) = Len(df.rows)
        /\ \A k \in 1..Len(mapped_df.rows) : mapped_df.rows[k].label = df.rows[k].label

\* C4: in every row process_csv returns, each target field whose source
\* column is in the input holds that row's source value unchanged, a missing
\* value included.
C4_CopiedVerbatim ==
    pc = "process_returned" =>
        \A j \in 1..Len(df_deduped.rows) :
            \A k \in 1..Len(COLUMN_MAPPING) :
                HasColumn(df, COLUMN_MAPPING[k][1]) =>
                    df_deduped.rows[j].val[COLUMN_MAPPING[k][2]]
                        = InputRow(df_deduped.rows[j].label).val[COLUMN_MAPPING[k][1]]

-----------------------------------------------------------------------------
(* Properties of generate_output_filename, under SpecFile *)

\* the reference code with the nine characters deleted, then spaces replaced
RECURSIVE sanitizedCode(_)
sanitizedCode(s) ==
    IF s = <<>> THEN <<>>
    ELSE IF Head(s) \in {"<", ">", ":", "\"", "/", "\\", "|", "?", "*"}
         THEN sanitizedCode(Tail(s))
         ELSE <<IF Head(s) = " " THEN "_" ELSE Head(s)>> \o sanitizedCode(Tail(s))

\* 20250115_PROJ2025001_DirectSkip_Import.csv
ExampleFilename ==
    <<"2", "0", "2", "5", "0", "1", "1", "5", "_",
      "P", "R", "O", "J", "2", "0", "2", "5", "0", "0", "1", "_",
      "D", "i", "r", "e", "c", "t", "S", "k", "i", "p", "_",
      "I", "m", "p", "o", "r", "t", ".", "c", "s", "v">>

\* C6: a code that is empty, or empty once sanitized, gives
\* {dateStamp}_DirectSkip_Import.csv with one underscore after the date.
C6_EmptyCodeFilename ==
    (pc = "filename_returned" /\ sanitizedCode(property_ref_code) = <<>>) =>
        filename = today \o <<"_">> \o Suffix

\* C7: a code that is not empty once sanitized gives
\* {dateStamp}_{sanitizedCode}_DirectSkip_Import.csv, which holds none of the
\* nine characters and no space; PROJ:2025/001 on 2025-01-15 gives
\* 20250115_PROJ2025001_DirectSkip_Import.csv.
C7_SanitizedFilename ==
    (pc = "filename_returned" /\ sanitizedCode(property_ref_code) # <<>>) =>
        /\ filename = today \o <<"_">> \o sanitizedCode(property_ref_code) \o <<"_">> \o Suffix
        /\ \A k \in 1..Len(filename) :
             filename[k] \notin {"<", ">", ":", "\"", "/", "\\", "|", "?", "*", " "}
        /\ (property_ref_code = ExampleCode /\ today = ExampleDate) => filename = ExampleFilename

\* a code with characters to delete and a space to replace has been named
C7_Witness ==
    /\ pc = "filename_returned"
    /\ \E k \in 1..Len(property_ref_code) : property_ref_code[k] \in IllegalChars
    /\ \E k \in 1..Len(property_ref_code) : property_ref_code[k] = " "
    /\ Len(sanitizedCode(property_ref_code)) = 2
    /\ Len(filename) = Len(today) + 1 + 2 + 1 + Len(Suffix)

-----------------------------------------------------------------------------
(* Properties of main, under SpecMain *)

Shown(what) == \E k \in 1..Len(shown) : shown[k] = what

Before(a, b) ==
    \A k \in 1..Len(shown) : shown[k] = b => \E i \in 1..(k - 1) : shown[i] = a

Incomplete == property_ref_code = EmptyStr \/ uploaded_file.kind = "none"

\* C8: a file with the ten source columns and no rows is valid, and the run
\* over it ends with an empty download offered, nothing removed and no error.
C8_ZeroRowsCompletes ==
    (/\ pc = "done"
     /\ property_ref_code # EmptyStr
     /\ uploaded_file.kind = "csv"
     /\ Len(uploaded_file.frame.rows) = 0
     /\ \A k \in 1..Len(SourceColumns) : HasColumn(uploaded_file.frame, SourceColumns[k]))
    =>
        /\ validate_input_file(uploaded_file.frame)
        /\ ~Shown("error_processing")
        /\ duplicates_removed = 0
        /\ download.offered
        /\ Len(download.data.rows) = 0

\* C9 as claimed: in a run without a code or without a file process_csv is
\* not called and a guidance message is shown.
C9_GuidanceAlways ==
    (pc = "done" /\ Incomplete) =>
        /\ ~Shown("process_csv")
        /\ Shown("warning_enter_code") \/ Shown("warning_upload_file")

\* C9 as amended: in a run without a code or without a file process_csv is
\* never called; a guidance message is shown when exactly one of the two is
\* absent, and nothing is shown when both are.
C9_NoTransformWhenIncomplete ==
    Incomplete =>
        /\ ~Shown("process_csv")
        /\ mapped_df = EmptyFrame /\ df_deduped = EmptyFrame /\ ~download.offered
        /\ pc = "done" =>
            /\ (uploaded_file.kind # "none" /\ property_ref_code = EmptyStr)
                    => shown = <<"warning_enter_code">>
            /\ (uploaded_file.kind = "none" /\ property_ref_code # EmptyStr)
                    => shown = <<"warning_upload_file">>
            /\ (uploaded_file.kind = "none" /\ property_ref_code = EmptyStr)
                    => shown = <<>>

\* a run over a file with rows and no code has ended with the guidance
C9_Witness ==
    /\ pc = "done"
    /\ uploaded_file.kind = "csv"
    /\ Len(uploaded_file.frame.rows) > 0
    /\ validate_input_file(uploaded_file.frame)
    /\ property_ref_code = EmptyStr
    /\ shown = <<"warning_enter_code">>

\* C10: process_csv, generate_output_filename and the download come only
\* after validate_input_file returned True for the frame read; with a source
\* column missing the run ends with the error and no output; process_csv
\* never takes its empty-column branch in a run.
C10_ValidationGates ==
    /\ (Shown("process_csv") \/ Shown("generate_output_filename") \/ download.offered
            \/ pc \in {"process", "results", "download"}) =>
          /\ df = uploaded_file.frame
          /\ missing_columns(df) = <<>>
          /\ Shown("validate_input_file") /\ ~Shown("error_missing_columns")
    /\ Before("validate_input_file", "process_csv")
    /\ Before("process_csv", "generate_output_filename")
    /\ Before("generate_output_filename", "download_button")
    /\ (pc = "done" /\ ~Incomplete /\ uploaded_file.kind = "csv"
            /\ missing_columns(uploaded_file.frame) # <<>>) =>
          /\ Shown("error_missing_columns")
          /\ ~Shown("process_csv")
          /\ ~download.offered /\ filename = EmptyStr
          /\ mapped_df = EmptyFrame /\ df_deduped = EmptyFrame
    /\ warnings = <<>>
    /\ ~Shown("warning_column_not_found")

\* a run over a file with rows that lacks source columns has ended
C10_Witness ==
    /\ pc = "done"
    /\ uploaded_file.kind = "csv"
    /\ Len(uploaded_file.frame.rows) > 0
    /\ Len(missing_columns(uploaded_file.frame)) = 1
    /\ property_ref_code # EmptyStr
    /\ shown = <<"success_uploaded", "validate_input_file", "error_missing_columns">>

====
